---- MODULE Spec2Model ----
(***************************************************************************)
(* Model of the bubble shooter physics engine                              *)
(* (src/core_engine/physics_engine.cpp).                                   *)
(*                                                                         *)
(* Numbers.  The engine computes in 32-bit floats.  A float is held here   *)
(* as an integer count of 1/Scale (fixed point, rounded to nearest), and   *)
(* deltaTime as a count of 1/Ticks of a second.  deltaTime is held finer   *)
(* than the other quantities because a float keeps relative precision: a   *)
(* small deltaTime is representable while its product with a velocity can  *)
(* fall below the resolution of the position it is added to, so that the   *)
(* addition changes nothing.  The model keeps that effect; the threshold   *)
(* at which it happens is the model's, not the float format's.             *)
(* TLC integers are 32 bits wide, so products are formed in two halves.    *)
(***************************************************************************)
EXTENDS Integers, Sequences, FiniteSets, TLC

VARIABLES
    bubbles,            \* std::vector<Bubble> bubbles
    bullets,            \* std::vector<Bullet> bullets
    gameTime,           \* float gameTime
    bubblesDestroyed,   \* int bubblesDestroyed
    speedMultiplier,    \* float speedMultiplier
    call,               \* history: the last operation the host called, with its arguments
    ret,                \* history: what that operation returned
    pass,               \* history: the last collision pass since initialize (collections before and after it)
    frames              \* history: number of update calls so far (counted up to MaxFlight)

world == <<bubbles, bullets, gameTime, bubblesDestroyed, speedMultiplier>>
vars == <<bubbles, bullets, gameTime, bubblesDestroyed, speedMultiplier, call, ret, pass, frames>>

----------------------------------------------------------------------------
(* Fixed-point arithmetic *)

Scale == 1000
Ticks == 10000

Abs(n) == IF n < 0 THEN -n ELSE n
Max(a, b) == IF a >= b THEN a ELSE b
Min(a, b) == IF a <= b THEN a ELSE b

\* n / d rounded to the nearest integer (d > 0)
RoundDiv(n, d) == (n + d \div 2) \div d

\* a * b of two floats; a is split so that no intermediate exceeds 32 bits
Mul(a, b) == (a \div Scale) * b + RoundDiv((a % Scale) * b, Scale)

\* v * deltaTime
MulDt(v, deltaTime) ==
    v * (deltaTime \div Ticks) + RoundDiv(v * (deltaTime % Ticks), Ticks)

\* a clock that counts every frame twice
DtFloatTwice(deltaTime) == 2 * RoundDiv(deltaTime * Scale, Ticks)

\* deltaTime as a float
DtFloat(deltaTime) == RoundDiv(deltaTime * Scale, Ticks)

RECURSIVE SqrtIter(_, _, _)
SqrtIter(n, lo, hi) ==
    IF lo >= hi THEN lo
    ELSE LET mid == (lo + hi + 1) \div 2
         IN IF mid * mid <= n THEN SqrtIter(n, mid, hi) ELSE SqrtIter(n, lo, mid - 1)

\* std::sqrt of a non-negative integer below 2^31, rounded down
ISqrt(n) == SqrtIter(n, 0, 46340)

\* constexpr float PI
PI == 3142

\* std::sin on [0, PI] (Bhaskara's rational approximation, error below 0.002)
SinHalf(x) ==
    LET p == x * (PI - x)
    IN (16 * p) \div ((5 * PI * PI - 4 * p) \div Scale)

\* std::sin
Sin(x) ==
    LET r == x % (2 * PI)
    IN IF r <= PI THEN SinHalf(r) ELSE -SinHalf(r - PI)

\* std::cos
Cos(x) == Sin(x + PI \div 2)

\* Window inside which the squares of a difference fit 32 bits
DistWindow == 32000

\* std::sqrt(dx * dx + dy * dy).  Outside the window the larger component is
\* returned: a lower bound of the distance, and above every sum of radii the
\* model creates (radii stay below 20 + 5).
Length(dx, dy) ==
    IF Abs(dx) >= DistWindow \/ Abs(dy) >= DistWindow
    THEN Max(Abs(dx), Abs(dy))
    ELSE ISqrt(dx * dx + dy * dy)

----------------------------------------------------------------------------
(* The random source: rand() returns any value in 0 .. RAND_MAX.  The draws
   of one operation are taken from a stream, which walks through RandValues
   (least, middle and greatest value) from any start. *)

RAND_MAX == 2147483647

RandValues == <<0, 1073741826, RAND_MAX>>

RandStreams == 0 .. Len(RandValues) - 1

\* the k-th call of rand() (k = 0, 1, ...) under stream rs
Rand(rs, k) == RandValues[((rs + k) % Len(RandValues)) + 1]

\* static_cast<float>(rand()) / RAND_MAX
Unit(r) == Min(Scale, r \div (RAND_MAX \div Scale))

----------------------------------------------------------------------------
(* Game objects *)

Vector2D(x, y) == [x |-> x, y |-> y]

\* Bubble::Bubble
Bubble(x, y, radius, speed, colorIndex) ==
    [ position   |-> Vector2D(x, y),
      velocity   |-> Vector2D(0, speed),
      radius     |-> radius,
      active     |-> TRUE,
      colorIndex |-> colorIndex,
      speed      |-> speed,
      isSpecial  |-> FALSE ]

\* GameObject::update
GameObjectUpdate(o, deltaTime) ==
    [o EXCEPT !.position =
        Vector2D(o.position.x + MulDt(o.velocity.x, deltaTime),
                 o.position.y + MulDt(o.velocity.y, deltaTime))]

\* an update that accelerates and sways the bubble and does not move it
BubbleUpdateWithoutMove(b, deltaTime) ==
    [b EXCEPT !.velocity = Vector2D(Mul(Sin(Mul(b.position.y, 10)), 500),
                                    b.velocity.y + Mul(MulDt(100, deltaTime), b.speed))]

\* an update in which the yellow particles of an explosion fade
BubbleUpdateFading(b, deltaTime) ==
    LET vy == b.velocity.y + Mul(MulDt(100, deltaTime), b.speed)
        vx == Mul(Sin(Mul(b.position.y, 10)), 500)
        moved == GameObjectUpdate([b EXCEPT !.velocity = Vector2D(vx, vy)], deltaTime)
    IN [moved EXCEPT !.active = (b.colorIndex # 4)]

\* Bubble::update
BubbleUpdate(b, deltaTime) ==
    LET vy == b.velocity.y + Mul(MulDt(100, deltaTime), b.speed)
        vx == Mul(Sin(Mul(b.position.y, 10)), 500)
    IN GameObjectUpdate([b EXCEPT !.velocity = Vector2D(vx, vy)], deltaTime)

\* Bullet::Bullet (speed = 8.0f, radius 5, maxDistance 1000)
Bullet(x, y, angle) ==
    [ position         |-> Vector2D(x, y),
      velocity         |-> Vector2D(Mul(Cos(angle), 8 * Scale), -Mul(Sin(angle), 8 * Scale)),
      radius           |-> 5 * Scale,
      active           |-> TRUE,
      speed            |-> 8 * Scale,
      maxDistance      |-> 1000 * Scale,
      distanceTraveled |-> 0 ]

\* an update that lets a bullet fly on past maxDistance
BulletUpdateNeverExpires(b, deltaTime) ==
    LET moved == GameObjectUpdate(b, deltaTime)
        d == b.distanceTraveled
                + MulDt(ISqrt(b.velocity.x * b.velocity.x + b.velocity.y * b.velocity.y),
                        deltaTime)
    IN [moved EXCEPT !.distanceTraveled = d]

\* Bullet::update
BulletUpdate(b, deltaTime) ==
    LET moved == GameObjectUpdate(b, deltaTime)
        d == b.distanceTraveled
                + MulDt(ISqrt(b.velocity.x * b.velocity.x + b.velocity.y * b.velocity.y),
                        deltaTime)
    IN [moved EXCEPT !.distanceTraveled = d,
                     !.active = IF d > b.maxDistance THEN FALSE ELSE b.active]

----------------------------------------------------------------------------
(* PhysicsEngine: helpers *)

\* a particle whose colour is left at the constructor's default
ParticleDefaultColor(x, y, radius, i, particleCount, r) ==
    LET angle == RoundDiv(2 * PI * i, particleCount)
        speed == 2 * Scale + Mul(Unit(r), 3 * Scale)
        particle == Bubble(x, y, Mul(radius, 300), speed, 0)
    IN [particle EXCEPT !.velocity = Vector2D(Mul(Cos(angle), speed), Mul(Sin(angle), speed))]

\* PhysicsEngine::createExplosion, particle i of particleCount; r is its rand()
Particle(x, y, radius, i, particleCount, r) ==
    LET angle == RoundDiv(2 * PI * i, particleCount)
        speed == 2 * Scale + Mul(Unit(r), 3 * Scale)
        particleRadius == Mul(radius, 300)
        particle == Bubble(x, y, particleRadius, speed, 0)
    IN [particle EXCEPT !.velocity = Vector2D(Mul(Cos(angle), speed), Mul(Sin(angle), speed)),
                        !.colorIndex = 4]

\* an explosion of 5 to 8 particles
createExplosionOfFive(x, y, radius, rs, k) ==
    LET particleCount == 5 + (Rand(rs, k) % 4)
    IN [i \in 1 .. particleCount |->
            Particle(x, y, radius, i - 1, particleCount, Rand(rs, k + i))]

\* PhysicsEngine::createExplosion: the particles pushed back, in order.
\* The first draw from position k of the stream gives the count, the next ones the speeds.
createExplosion(x, y, radius, rs, k) ==
    LET particleCount == 6 + (Rand(rs, k) % 4)
    IN [i \in 1 .. particleCount |->
            Particle(x, y, radius, i - 1, particleCount, Rand(rs, k + i))]

\* a collision test that forgets the bubble's radius
CollidesBulletRadiusOnly(bullet, bubble) ==
    Length(bullet.position.x - bubble.position.x, bullet.position.y - bubble.position.y)
        < bullet.radius

\* the collision test of checkCollisions
Collides(bullet, bubble) ==
    Length(bullet.position.x - bubble.position.x, bullet.position.y - bubble.position.y)
        < bullet.radius + bubble.radius

\* an inner loop that picks the closest of the active bubbles the bullet collides
\* with (the first of them when several are as close)
ScanClosestBubble(bullet, bs, j) ==
    LET Far(m) == Length(bullet.position.x - bs[m].position.x,
                         bullet.position.y - bs[m].position.y)
        hit == { m \in j .. Len(bs) : bs[m].active /\ Collides(bullet, bs[m]) }
    IN IF hit = {} THEN 0
       ELSE CHOOSE m \in hit : \A n \in hit : Far(m) < Far(n) \/ (Far(m) = Far(n) /\ m <= n)

\* an inner loop that does not skip inactive bubbles
RECURSIVE ScanAllBubbles(_, _, _)
ScanAllBubbles(bullet, bs, j) ==
    IF j > Len(bs) THEN 0
    ELSE IF Collides(bullet, bs[j]) THEN j
    ELSE ScanAllBubbles(bullet, bs, j + 1)

\* inner loop of checkCollisions: index of the first active bubble, from j on,
\* that the bullet collides with; 0 if the scan ends without one
RECURSIVE ScanBubbles(_, _, _)
ScanBubbles(bullet, bs, j) ==
    IF j > Len(bs) THEN 0
    ELSE IF ~bs[j].active THEN ScanBubbles(bullet, bs, j + 1)
    ELSE IF Collides(bullet, bs[j]) THEN j
    ELSE ScanBubbles(bullet, bs, j + 1)

\* the step of the outer loop for bullet i, which hits bubble j
Hit(i, j, st, rs) ==
    LET hit == st.bubbles[j]
        parts == createExplosion(hit.position.x, hit.position.y, hit.radius, rs, st.drawn)
    IN [ bubbles    |-> [st.bubbles EXCEPT ![j].active = FALSE] \o parts,
         bullets    |-> [st.bullets EXCEPT ![i].active = FALSE],
         collisions |-> st.collisions + 1,
         destroyed  |-> st.destroyed + 1,
         drawn      |-> st.drawn + 1 + Len(parts),
         hits       |-> Append(st.hits, [bullet |-> i, bubble |-> j, spawned |-> Len(parts)]) ]

\* an outer loop that a hit ends (the break leaves both loops)
RECURSIVE CollideUntilHit(_, _, _)
CollideUntilHit(i, st, rs) ==
    IF i > Len(st.bullets) THEN st
    ELSE IF ~st.bullets[i].active THEN CollideUntilHit(i + 1, st, rs)
    ELSE LET j == ScanBubbles(st.bullets[i], st.bubbles, 1)
         IN IF j = 0 THEN CollideUntilHit(i + 1, st, rs) ELSE Hit(i, j, st, rs)

\* an outer loop that does not skip inactive bullets
RECURSIVE CollideEveryBullet(_, _, _)
CollideEveryBullet(i, st, rs) ==
    IF i > Len(st.bullets) THEN st
    ELSE LET j == ScanBubbles(st.bullets[i], st.bubbles, 1)
         IN IF j = 0 THEN CollideEveryBullet(i + 1, st, rs)
            ELSE CollideEveryBullet(i + 1, Hit(i, j, st, rs), rs)

\* outer loop of checkCollisions from bullet i on.  st holds the collections,
\* the counters, the number of rand() draws made and the hits so far.
RECURSIVE CollideFrom(_, _, _)
CollideFrom(i, st, rs) ==
    IF i > Len(st.bullets) THEN st
    ELSE IF ~st.bullets[i].active THEN CollideFrom(i + 1, st, rs)
    ELSE LET j == ScanBubbles(st.bullets[i], st.bubbles, 1)
         IN IF j = 0 THEN CollideFrom(i + 1, st, rs)
            ELSE CollideFrom(i + 1, Hit(i, j, st, rs), rs)

\* PhysicsEngine::checkCollisions on collections bs, us with counter destroyed
checkCollisions(bs, us, destroyed, rs) ==
    CollideFrom(1, [ bubbles |-> bs, bullets |-> us, collisions |-> 0,
                     destroyed |-> destroyed, drawn |-> 0, hits |-> <<>> ], rs)

IsActive(o) == o.active

\* a cleanup that removes nothing
cleanupNothing(objs) == objs

\* a cleanup that hands back the active objects last one first
cleanupBackwards(objs) ==
    LET kept == SelectSeq(objs, IsActive)
    IN [i \in 1 .. Len(kept) |-> kept[Len(kept) + 1 - i]]

\* PhysicsEngine::cleanup, on one collection
cleanup(objs) == SelectSeq(objs, IsActive)

\* the spawn loop of PhysicsEngine::initialize from bubble i on
RECURSIVE SpawnFrom(_, _, _, _)
SpawnFrom(i, bubbleCount, canvasWidth, rs) ==
    IF i >= bubbleCount THEN <<>>
    ELSE LET radius == 12 * Scale + Mul(Unit(Rand(rs, 5 * i)), 8 * Scale)
             x == radius + Mul(Unit(Rand(rs, 5 * i + 1)), canvasWidth - 2 * radius)
             y == -radius - Mul(Unit(Rand(rs, 5 * i + 2)), 100 * Scale)
             speed == Scale + Mul(Unit(Rand(rs, 5 * i + 3)), 1500)
             color == Rand(rs, 5 * i + 4) % 5
         IN <<Bubble(x, y, radius, speed, color)>>
                \o SpawnFrom(i + 1, bubbleCount, canvasWidth, rs)

\* the record of a collision pass: the collections and the counter when it
\* starts and when it ends, the number it returns, and its hits in order
Pass(bs, us, destroyed, st) ==
    [ start |-> [bubbles |-> bs, bullets |-> us, bubblesDestroyed |-> destroyed],
      end   |-> [bubbles |-> st.bubbles, bullets |-> st.bullets,
                 bubblesDestroyed |-> st.destroyed],
      collisions |-> st.collisions,
      hits  |-> st.hits ]

NoPass ==
    [ start |-> [bubbles |-> <<>>, bullets |-> <<>>, bubblesDestroyed |-> 0],
      end   |-> [bubbles |-> <<>>, bullets |-> <<>>, bubblesDestroyed |-> 0],
      collisions |-> 0, hits |-> <<>> ]

----------------------------------------------------------------------------
(* Bounds of the model *)

MaxFrames == 1        \* update calls in a run of Spec and QuerySpec
MaxFlight == 3        \* update calls in a run of FlightSpec; frames counts up to it
MaxCount == 2         \* largest bubbleCount given to initialize
VelCap == 200000      \* update is offered while velocities stay below this
PosCap == 100000000   \* update is offered while coordinates stay below this
MaxFall == 200        \* FrameSpec follows the bubble down to this y

----------------------------------------------------------------------------
(* What an operation returns: n is the number returned (a count, 1/0 for
   true/false, 0 for void), items the records of a returned array or object. *)

Returned(n, items) == [n |-> n, items |-> items]
Void == Returned(0, <<>>)
Called(op, args) == [op |-> op, args |-> args]

----------------------------------------------------------------------------
(* PhysicsEngine: operations *)

\* PhysicsEngine::PhysicsEngine
Init ==
    /\ bubbles = <<>>
    /\ bullets = <<>>
    /\ gameTime = 0
    /\ bubblesDestroyed = 0
    /\ speedMultiplier = Scale
    /\ call = Called("PhysicsEngine", <<>>)
    /\ ret = Void
    /\ pass = NoPass
    /\ frames = 0

\* an initialize that leaves the counters as they are
InitializeKeepingCounters(bubbleCount, canvasWidth, rs) ==
    /\ bubbles' = SpawnFrom(0, bubbleCount, canvasWidth, rs)
    /\ bullets' = <<>>
    /\ call' = Called("initialize", <<bubbleCount, canvasWidth>>)
    /\ ret' = Void
    /\ pass' = NoPass
    /\ UNCHANGED <<gameTime, bubblesDestroyed, speedMultiplier, frames>>

\* PhysicsEngine::initialize
Initialize(bubbleCount, canvasWidth, rs) ==
    /\ bubbles' = SpawnFrom(0, bubbleCount, canvasWidth, rs)
    /\ bullets' = <<>>
    /\ gameTime' = 0
    /\ bubblesDestroyed' = 0
    /\ call' = Called("initialize", <<bubbleCount, canvasWidth>>)
    /\ ret' = Void
    /\ pass' = NoPass
    /\ UNCHANGED <<speedMultiplier, frames>>

\* the two update loops of PhysicsEngine::update
UpdateBubbles(bs, deltaTime) ==
    [i \in 1 .. Len(bs) |-> IF bs[i].active THEN BubbleUpdate(bs[i], deltaTime) ELSE bs[i]]

UpdateBullets(us, deltaTime) ==
    [i \in 1 .. Len(us) |-> IF us[i].active THEN BulletUpdate(us[i], deltaTime) ELSE us[i]]

\* an update that detects collisions before it moves anything
UpdateCollidingFirst(deltaTime, rs) ==
    LET st == checkCollisions(bubbles, bullets, bubblesDestroyed, rs)
    IN /\ gameTime' = gameTime + DtFloat(deltaTime)
       /\ bubbles' = cleanup(UpdateBubbles(st.bubbles, deltaTime))
       /\ bullets' = cleanup(UpdateBullets(st.bullets, deltaTime))
       /\ bubblesDestroyed' = st.destroyed
       /\ pass' = Pass(bubbles, bullets, bubblesDestroyed, st)
       /\ call' = Called("update", <<deltaTime>>)
       /\ ret' = Void
       /\ frames' = IF frames < MaxFlight THEN frames + 1 ELSE frames
       /\ UNCHANGED speedMultiplier

\* PhysicsEngine::update
Update(deltaTime, rs) ==
    LET bs == UpdateBubbles(bubbles, deltaTime)
        us == UpdateBullets(bullets, deltaTime)
        st == checkCollisions(bs, us, bubblesDestroyed, rs)
    IN /\ gameTime' = gameTime + DtFloat(deltaTime)
       /\ bubbles' = cleanup(st.bubbles)
       /\ bullets' = cleanup(st.bullets)
       /\ bubblesDestroyed' = st.destroyed
       /\ pass' = Pass(bs, us, bubblesDestroyed, st)
       /\ call' = Called("update", <<deltaTime>>)
       /\ ret' = Void
       /\ frames' = IF frames < MaxFlight THEN frames + 1 ELSE frames
       /\ UNCHANGED speedMultiplier

\* PhysicsEngine::addBubble
AddBubble(x, y, radius, speed, color) ==
    /\ bubbles' = Append(bubbles, Bubble(x, y, radius, speed, color))
    /\ call' = Called("addBubble", <<x, y, radius, speed, color>>)
    /\ ret' = Void
    /\ UNCHANGED <<bullets, gameTime, bubblesDestroyed, speedMultiplier, pass, frames>>

\* PhysicsEngine::shootBullet
ShootBullet(x, y, angle) ==
    /\ bullets' = Append(bullets, Bullet(x, y, angle))
    /\ call' = Called("shootBullet", <<x, y, angle>>)
    /\ ret' = Void
    /\ UNCHANGED <<bubbles, gameTime, bubblesDestroyed, speedMultiplier, pass, frames>>

\* a checkCollisions that removes what it has deactivated
CheckCollisionsCleaning(rs) ==
    LET st == checkCollisions(bubbles, bullets, bubblesDestroyed, rs)
    IN /\ bubbles' = cleanup(st.bubbles)
       /\ bullets' = cleanup(st.bullets)
       /\ bubblesDestroyed' = st.destroyed
       /\ pass' = Pass(bubbles, bullets, bubblesDestroyed, st)
       /\ call' = Called("checkCollisions", <<>>)
       /\ ret' = Returned(st.collisions, <<>>)
       /\ UNCHANGED <<gameTime, speedMultiplier, frames>>

\* PhysicsEngine::checkCollisions, called by the host
CheckCollisions(rs) ==
    LET st == checkCollisions(bubbles, bullets, bubblesDestroyed, rs)
    IN /\ bubbles' = st.bubbles
       /\ bullets' = st.bullets
       /\ bubblesDestroyed' = st.destroyed
       /\ pass' = Pass(bubbles, bullets, bubblesDestroyed, st)
       /\ call' = Called("checkCollisions", <<>>)
       /\ ret' = Returned(st.collisions, <<>>)
       /\ UNCHANGED <<gameTime, speedMultiplier, frames>>

\* a loop body that scales the speed and leaves the velocity
RescaledKeepingVelocity(b, multiplier) == [b EXCEPT !.speed = Mul(b.speed, multiplier)]

\* the loop body of PhysicsEngine::setSpeedMultiplier
Rescaled(b, multiplier) ==
    LET speed == Mul(b.speed, multiplier)
    IN [b EXCEPT !.speed = speed, !.velocity = Vector2D(b.velocity.x, speed)]

\* PhysicsEngine::setSpeedMultiplier
SetSpeedMultiplier(multiplier) ==
    /\ speedMultiplier' = multiplier
    /\ bubbles' = [i \in 1 .. Len(bubbles) |-> Rescaled(bubbles[i], multiplier)]
    /\ call' = Called("setSpeedMultiplier", <<multiplier>>)
    /\ ret' = Void
    /\ UNCHANGED <<bullets, gameTime, bubblesDestroyed, pass, frames>>

----------------------------------------------------------------------------
(* PhysicsEngine: queries *)

BubbleData(b) ==
    [x |-> b.position.x, y |-> b.position.y, radius |-> b.radius,
     color |-> b.colorIndex, speed |-> b.speed]

BulletData(b) == [x |-> b.position.x, y |-> b.position.y, radius |-> b.radius]

\* the value of PhysicsEngine::getBubbleData: result.set(index++, bubbleData)
\* for each active bubble, in collection order
getBubbleData ==
    LET kept == SelectSeq(bubbles, IsActive)
    IN [i \in 1 .. Len(kept) |-> BubbleData(kept[i])]

\* the value of PhysicsEngine::getBulletData
getBulletData ==
    LET kept == SelectSeq(bullets, IsActive)
    IN [i \in 1 .. Len(kept) |-> BulletData(kept[i])]

\* the value of PhysicsEngine::getBubblesAtBottom
getBubblesAtBottom(canvasHeight) ==
    LET AtBottom(b) == b.active /\ b.position.y > canvasHeight - 10 * Scale
        kept == SelectSeq(bubbles, AtBottom)
    IN [i \in 1 .. Len(kept) |-> BulletData(kept[i])]

\* the value of PhysicsEngine::getStats
getStats ==
    [bubblesCount |-> Len(bubbles), bulletsCount |-> Len(bullets),
     bubblesDestroyed |-> bubblesDestroyed, gameTime |-> gameTime]

\* a test that also counts an active bubble exactly at canvasHeight - 10
hasBubbleTouchedBottom(canvasHeight) ==
    \E i \in 1 .. Len(bubbles) :
        bubbles[i].active /\ bubbles[i].position.y >= canvasHeight - 10 * Scale

\* the value of PhysicsEngine::hasBubbleReachedBottom: true at the first active
\* bubble below canvasHeight - 10, false when the loop ends without one
hasBubbleReachedBottom(canvasHeight) ==
    \E i \in 1 .. Len(bubbles) :
        bubbles[i].active /\ bubbles[i].position.y > canvasHeight - 10 * Scale

\* the loop of PhysicsEngine::predictTrajectory from step i on
RECURSIVE TrajectoryFrom(_, _, _, _, _, _)
TrajectoryFrom(i, steps, x, y, vx, vy) ==
    IF i >= steps THEN <<>>
    ELSE <<Vector2D(x, y)>>
            \o TrajectoryFrom(i + 1, steps, x + Mul(vx, 16), y + Mul(vy, 16), vx, vy)

\* the value of PhysicsEngine::predictTrajectory
predictTrajectory(startX, startY, angle, speed, steps) ==
    TrajectoryFrom(0, steps, startX, startY, Mul(Cos(angle), speed), -Mul(Sin(angle), speed))

\* a query that also removes the inactive objects
QueryCleaning(op, args, value) ==
    /\ call' = Called(op, args)
    /\ ret' = value
    /\ bubbles' = cleanup(bubbles)
    /\ bullets' = cleanup(bullets)
    /\ UNCHANGED <<gameTime, bubblesDestroyed, speedMultiplier, pass, frames>>

\* A query called by the host: the world is left as the code leaves it.
Query(op, args, value) ==
    /\ call' = Called(op, args)
    /\ ret' = value
    /\ UNCHANGED <<bubbles, bullets, gameTime, bubblesDestroyed, speedMultiplier, pass, frames>>

GetBubbleData ==
    Query("getBubbleData", <<>>, Returned(Len(getBubbleData), getBubbleData))

GetBulletData ==
    Query("getBulletData", <<>>, Returned(Len(getBulletData), getBulletData))

GetBubblesAtBottom(canvasHeight) ==
    Query("getBubblesAtBottom", <<canvasHeight>>,
          Returned(Len(getBubblesAtBottom(canvasHeight)), getBubblesAtBottom(canvasHeight)))

GetStats == Query("getStats", <<>>, Returned(0, <<getStats>>))

HasBubbleReachedBottom(canvasHeight) ==
    Query("hasBubbleReachedBottom", <<canvasHeight>>,
          Returned(IF hasBubbleReachedBottom(canvasHeight) THEN 1 ELSE 0, <<>>))

PredictTrajectory(startX, startY, angle, speed, steps) ==
    Query("predictTrajectory", <<startX, startY, angle, speed, steps>>,
          Returned(Len(predictTrajectory(startX, startY, angle, speed, steps)),
                   predictTrajectory(startX, startY, angle, speed, steps)))

----------------------------------------------------------------------------
(* The host: any sequence of operations, with arguments from these sets *)

DeltaTimes == {-160, 1, 160, Ticks, 2 * Ticks, 126 * Ticks}

\* addBubble is called with these arguments, in this order
BubbleArgs ==
    << <<100 * Scale, 100 * Scale, 10 * Scale, Scale, 0>>,
       <<100 * Scale, 108 * Scale, 10 * Scale, Scale, 1>> >>

\* shootBullet is called with these arguments, in this order
BulletArgs ==
    << <<100 * Scale, 100 * Scale, PI \div 2>>,
       <<100 * Scale, 110 * Scale, PI \div 2>> >>

Multipliers == {2 * Scale}

CanvasWidths == {20 * Scale, 200 * Scale}

CanvasHeights == {100 * Scale}

TrajectoryArgs ==
    { <<0, 0, 0, 10 * Scale, 5>>,
      <<100 * Scale, 100 * Scale, PI \div 2, 8 * Scale, 3>> }

\* update stays inside the range the arithmetic of the model covers
InRange ==
    /\ \A i \in 1 .. Len(bubbles) :
          /\ Abs(bubbles[i].position.x) <= PosCap
          /\ Abs(bubbles[i].position.y) <= PosCap
          /\ Abs(bubbles[i].velocity.y) + 13 * Abs(bubbles[i].speed) <= VelCap
    /\ \A i \in 1 .. Len(bullets) :
          /\ Abs(bullets[i].position.x) <= PosCap
          /\ Abs(bullets[i].position.y) <= PosCap

HostInitialize ==
    \E bubbleCount \in 0 .. MaxCount, canvasWidth \in CanvasWidths, rs \in RandStreams :
        Initialize(bubbleCount, canvasWidth, rs)

\* The stream matters only to a pass in which some bullet can hit some bubble.
StreamsFor(bs, us) ==
    IF \E i \in 1 .. Len(us), j \in 1 .. Len(bs) :
          us[i].active /\ bs[j].active /\ Collides(us[i], bs[j])
    THEN RandStreams
    ELSE {0}

HostUpdate ==
    /\ frames < MaxFrames
    /\ InRange
    /\ \E deltaTime \in DeltaTimes :
          \E rs \in StreamsFor(UpdateBubbles(bubbles, deltaTime),
                               UpdateBullets(bullets, deltaTime)) :
              Update(deltaTime, rs)

HostAddBubble ==
    /\ Len(bubbles) < Len(BubbleArgs)
    /\ LET a == BubbleArgs[Len(bubbles) + 1]
       IN AddBubble(a[1], a[2], a[3], a[4], a[5])

\* the host fires while the bullets in the collection and the bubbles destroyed
\* are fewer than the bullets it has
HostShootBullet ==
    /\ Len(bullets) + bubblesDestroyed < Len(BulletArgs)
    /\ LET a == BulletArgs[Len(bullets) + 1]
       IN ShootBullet(a[1], a[2], a[3])

AllActive(objs) == \A i \in 1 .. Len(objs) : objs[i].active

\* the host calls checkCollisions itself only on collections an update has cleaned
HostCheckCollisions ==
    /\ AllActive(bubbles) /\ AllActive(bullets)
    /\ \E rs \in StreamsFor(bubbles, bullets) : CheckCollisions(rs)

\* the multiplier is set at most once in a run
HostSetSpeedMultiplier ==
    /\ speedMultiplier = Scale
    /\ \E multiplier \in Multipliers : SetSpeedMultiplier(multiplier)

HostGetBubblesAtBottom == \E canvasHeight \in CanvasHeights : GetBubblesAtBottom(canvasHeight)

HostHasBubbleReachedBottom ==
    \E canvasHeight \in CanvasHeights : HasBubbleReachedBottom(canvasHeight)

HostPredictTrajectory ==
    \E a \in TrajectoryArgs : PredictTrajectory(a[1], a[2], a[3], a[4], a[5])

\* Spec: the host calls the commands in any order
Next ==
    \/ HostInitialize
    \/ HostUpdate
    \/ HostAddBubble
    \/ HostShootBullet
    \/ HostCheckCollisions
    \/ HostSetSpeedMultiplier

Spec == Init /\ [][Next]_vars

\* the frames of FlightSpec: backwards, a usual frame, and half the time a
\* bullet takes to travel maxDistance
FlightDeltaTimes == {-160, 160, 63 * Ticks}

FlightUpdate ==
    /\ frames < MaxFlight
    /\ InRange
    /\ \E deltaTime \in FlightDeltaTimes :
          \E rs \in StreamsFor(UpdateBubbles(bubbles, deltaTime),
                               UpdateBullets(bullets, deltaTime)) :
              Update(deltaTime, rs)

\* when its frames are over the host may set up the next game
FlightInitialize == frames = MaxFlight /\ HostInitialize

FlightSetSpeedMultiplier == frames = MaxFlight /\ HostSetSpeedMultiplier

\* FlightSpec: a game of several frames, bubbles added and bullets fired at any
\* time
FlightNext ==
    \/ FlightUpdate
    \/ HostAddBubble
    \/ HostShootBullet
    \/ HostCheckCollisions
    \/ FlightInitialize
    \/ FlightSetSpeedMultiplier

FlightSpec == Init /\ [][FlightNext]_vars

\* the frames of FrameSpec: a ten-thousandth of a second, a sixtieth (as 0.016)
\* and a whole second
FrameDeltaTimes == {1, 160, Ticks}

\* the canvas heights FrameSpec asks about
FrameHeights == {0, 100 * Scale}

FrameInitialize ==
    /\ call.op = "PhysicsEngine"
    /\ \E rs \in RandStreams : Initialize(1, 200 * Scale, rs)

\* one deltaTime for all the frames of a run
FrameUpdate ==
    /\ call.op \in {"initialize", "update"}
    /\ Len(bubbles) = 1
    /\ bubbles[1].position.y <= MaxFall * Scale
    /\ \E deltaTime \in FrameDeltaTimes :
          /\ call.op = "update" => deltaTime = call.args[1]
          /\ Update(deltaTime, 0)

\* FrameSpec: initialize(1, 200), then frame after frame with nothing fired;
\* the host keeps calling update
FrameNext ==
    \/ FrameInitialize
    \/ FrameUpdate

FrameSpec == Init /\ [][FrameNext]_vars /\ WF_vars(FrameUpdate)

\* QuerySpec: the host also calls the queries, in any state the commands reach
QueryNext ==
    \/ HostUpdate
    \/ HostAddBubble
    \/ HostShootBullet
    \/ HostCheckCollisions
    \/ HostSetSpeedMultiplier
    \/ GetBubbleData
    \/ GetBulletData
    \/ HostGetBubblesAtBottom
    \/ GetStats
    \/ HostHasBubbleReachedBottom
    \/ HostPredictTrajectory

QuerySpec == Init /\ [][QueryNext]_vars

\* when the game is over the host may set up the next one
SessionInitialize == frames = MaxFrames /\ HostInitialize

\* time runs forward in every frame
SessionUpdate ==
    /\ frames < MaxFrames
    /\ InRange
    /\ \E deltaTime \in { d \in DeltaTimes : d >= 0 } :
          \E rs \in StreamsFor(UpdateBubbles(bubbles, deltaTime),
                               UpdateBullets(bullets, deltaTime)) :
              Update(deltaTime, rs)

\* SessionSpec: every operation of the engine, commands and queries, update
\* called with deltaTime >= 0
SessionNext ==
    \/ SessionInitialize
    \/ SessionUpdate
    \/ HostAddBubble
    \/ HostShootBullet
    \/ HostCheckCollisions
    \/ HostSetSpeedMultiplier
    \/ GetBubbleData
    \/ GetBulletData
    \/ HostGetBubblesAtBottom
    \/ GetStats
    \/ HostHasBubbleReachedBottom
    \/ HostPredictTrajectory

SessionSpec == Init /\ [][SessionNext]_vars

\* the host fires its bullets in the reverse order
ScanShootBullet ==
    /\ Len(bullets) + bubblesDestroyed < Len(BulletArgs)
    /\ LET a == BulletArgs[Len(BulletArgs) - Len(bullets)]
       IN ShootBullet(a[1], a[2], a[3])

\* ScanSpec: bubbles added and bullets fired, the bullet that is processed first
\* lying between the bubbles
ScanNext ==
    \/ HostUpdate
    \/ HostAddBubble
    \/ ScanShootBullet
    \/ HostCheckCollisions

ScanSpec == Init /\ [][ScanNext]_vars

\* a bubble far above the canvas: 126 seconds later it is at (100, -908), where
\* a bullet fired straight up from (100, 100) is by then
FarBubbleArgs == <<155440, -2621600, 10 * Scale, Scale, 0>>

\* half the time a bullet takes to travel maxDistance, and all of it
ExpiryDeltaTimes == {63 * Ticks, 126 * Ticks}

ExpiryAddBubble ==
    /\ bubbles = <<>>
    /\ bubblesDestroyed = 0
    /\ AddBubble(FarBubbleArgs[1], FarBubbleArgs[2], FarBubbleArgs[3],
                 FarBubbleArgs[4], FarBubbleArgs[5])

ExpiryUpdate ==
    /\ frames < MaxFlight
    /\ InRange
    /\ \E deltaTime \in ExpiryDeltaTimes :
          \E rs \in StreamsFor(UpdateBubbles(bubbles, deltaTime),
                               UpdateBullets(bullets, deltaTime)) :
              Update(deltaTime, rs)

\* ExpirySpec: bullets that fly until they expire, one of them into a bubble
ExpiryNext ==
    \/ ExpiryAddBubble
    \/ HostShootBullet
    \/ ExpiryUpdate
    \/ HostCheckCollisions

ExpirySpec == Init /\ [][ExpiryNext]_vars

----------------------------------------------------------------------------
(* Properties *)

\* the scenario of C1: a fresh world, then addBubble(100,100,10,1,0) and
\* shootBullet(100,100,pi/2), in either order
C1Scenario ==
    /\ gameTime = 0 /\ bubblesDestroyed = 0 /\ speedMultiplier = Scale /\ frames = 0
    /\ bubbles = <<Bubble(100 * Scale, 100 * Scale, 10 * Scale, Scale, 0)>>
    /\ bullets = <<Bullet(100 * Scale, 100 * Scale, PI \div 2)>>

\* the next update finds the bullet hitting the bubble
C1Hit ==
    /\ pass'.collisions = 1
    /\ ~pass'.end.bubbles[1].active
    /\ ~pass'.end.bullets[1].active
    /\ bubblesDestroyed' = 1

\* C1 as stated: in the scenario, the next update(dt) with any positive dt detects
\* the collision of the bullet with the bubble and leaves bubblesDestroyed = 1.
C1AnyPositiveDt ==
    [][(C1Scenario /\ call'.op = "update" /\ call'.args[1] > 0) => C1Hit]_vars

\* C1 amended: the same for any positive dt of at most 1.5 seconds (the collision
\* pass runs after both objects have moved, and they stay closer than the sum of
\* their radii only for such dt).
C1SmallDt ==
    [][(C1Scenario /\ call'.op = "update" /\ call'.args[1] > 0
            /\ 2 * call'.args[1] <= 3 * Ticks) => C1Hit]_vars

\* C1 happens: the scenario's update with dt = 1 second has destroyed the bubble
C1Witness ==
    /\ call = Called("update", <<Ticks>>)
    /\ frames = 1 /\ gameTime = Scale /\ bubblesDestroyed = 1
    /\ pass.start.bubbles =
          <<BubbleUpdate(Bubble(100 * Scale, 100 * Scale, 10 * Scale, Scale, 0), Ticks)>>
    /\ pass.start.bullets = <<BulletUpdate(Bullet(100 * Scale, 100 * Scale, PI \div 2), Ticks)>>
    /\ pass.collisions = 1

----------------------------------------------------------------------------
(* The last collision pass *)

\* the objects a pass has deactivated: inactive when it ends, and active when it
\* started or pushed back during it
Deactivated(startObjs, endObjs) ==
    { i \in 1 .. Len(endObjs) :
        ~endObjs[i].active /\ (i <= Len(startObjs) => startObjs[i].active) }

\* no object inactive when the pass starts is active when it ends
NoneReactivated(startObjs, endObjs) ==
    \A i \in 1 .. Len(startObjs) : ~startObjs[i].active => ~endObjs[i].active

HitBullets == { pass.hits[k].bullet : k \in 1 .. Len(pass.hits) }
HitBubbles == { pass.hits[k].bubble : k \in 1 .. Len(pass.hits) }

\* C2: in every collision pass (inside update or called by the host) each collision
\* deactivates exactly one bullet and exactly one bubble, both active until then;
\* no bullet and no bubble takes part in two collisions; and bubblesDestroyed grows
\* by exactly the number of collisions the pass returns.
C2OneBulletOneBubblePerCollision ==
    /\ Len(pass.hits) = pass.collisions
    /\ Cardinality(HitBullets) = pass.collisions
    /\ Cardinality(HitBubbles) = pass.collisions
    /\ Deactivated(pass.start.bullets, pass.end.bullets) = HitBullets
    /\ Deactivated(pass.start.bubbles, pass.end.bubbles) = HitBubbles
    /\ Len(pass.end.bullets) = Len(pass.start.bullets)
    /\ NoneReactivated(pass.start.bullets, pass.end.bullets)
    /\ NoneReactivated(pass.start.bubbles, pass.end.bubbles)
    /\ pass.end.bubblesDestroyed = pass.start.bubblesDestroyed + pass.collisions
    /\ (call.op \in {"update", "checkCollisions"} =>
            bubblesDestroyed = pass.end.bubblesDestroyed)
    /\ (call.op = "checkCollisions" => ret.n = pass.collisions)

\* C2 happens: a pass with two collisions, called by the host
C2Witness ==
    /\ call.op = "checkCollisions"
    /\ pass.collisions = 2
    /\ Cardinality(Deactivated(pass.start.bubbles, pass.end.bubbles)) = 2

\* centers closer than the sum of the radii
Overlap(bullet, bubble) ==
    LET dx == bullet.position.x - bubble.position.x
        dy == bullet.position.y - bubble.position.y
    IN /\ Abs(dx) < bullet.radius + bubble.radius
       /\ Abs(dy) < bullet.radius + bubble.radius
       /\ dx * dx + dy * dy < (bullet.radius + bubble.radius) * (bullet.radius + bubble.radius)

\* the bubbles that were in the collection when the last pass started and are
\* active when it ends
StartSurvivors ==
    SelectSeq(SubSeq(pass.end.bubbles, 1, Len(pass.start.bubbles)), IsActive)

\* C3: after update returns, no bullet and bubble that were both active when the
\* frame's collision pass started are both still active and overlapping.
C3NoOverlapLeftPending ==
    call.op = "update" =>
        /\ SubSeq(bubbles, 1, Len(StartSurvivors)) = StartSurvivors
        /\ bullets = SelectSeq(pass.end.bullets, IsActive)
        /\ \A i \in 1 .. Len(bullets), j \in 1 .. Len(StartSurvivors) :
              ~Overlap(bullets[i], bubbles[j])

\* C3 happens: an update with a collision that a bullet and a bubble of the start
\* of the pass both survive
C3Witness ==
    /\ call.op = "update"
    /\ pass.collisions >= 1
    /\ bullets # <<>>
    /\ StartSurvivors # <<>>

\* the index in pass.end.bubbles before the first particle of hit k
RECURSIVE ParticleOffset(_)
ParticleOffset(k) ==
    IF k = 1 THEN Len(pass.start.bubbles)
    ELSE ParticleOffset(k - 1) + pass.hits[k - 1].spawned

\* C5: every destroyed bubble spawns between 6 and 9 particles, appended to the
\* bubble collection at the destroyed bubble's position, each active (until a
\* later bullet of the pass hits it), with 0.3 times the destroyed bubble's
\* radius and colorIndex 4.
C5ExplosionParticles ==
    /\ Len(pass.end.bubbles) =
          ParticleOffset(Len(pass.hits) + 1)
    /\ \A k \in 1 .. Len(pass.hits) :
          /\ pass.hits[k].spawned \in 6 .. 9
          /\ \A i \in 1 .. pass.hits[k].spawned :
                LET p == pass.end.bubbles[ParticleOffset(k) + i]
                    d == pass.end.bubbles[pass.hits[k].bubble]
                IN /\ p.position = d.position
                   /\ Abs(10 * p.radius - 3 * d.radius) <= 5
                   /\ p.colorIndex = 4
                   /\ (p.active \/ ParticleOffset(k) + i \in HitBubbles)

\* C5 happens: a pass with two explosions, one of 9 particles
C5Witness ==
    /\ Len(pass.hits) = 2
    /\ \E k \in 1 .. 2 : pass.hits[k].spawned = 9
    /\ \E k \in 1 .. 2 : pass.hits[k].spawned < 9

----------------------------------------------------------------------------
(* Speeds *)

\* C6: setSpeedMultiplier(m) multiplies the speed of every active bubble by m and
\* sets its velocity.y to the new speed, changing nothing else of it and no
\* bullet; a bubble that addBubble appends starts with the speed it is given and
\* velocity (0, speed), whatever multiplier was set before.
C6MultiplierScalesPresentBubblesOnly ==
    [][ /\ call'.op = "setSpeedMultiplier" =>
              /\ Len(bubbles') = Len(bubbles)
              /\ bullets' = bullets
              /\ \A i \in 1 .. Len(bubbles) :
                    bubbles[i].active =>
                       /\ Abs(bubbles'[i].speed * Scale - bubbles[i].speed * call'.args[1])
                             <= Scale \div 2
                       /\ bubbles'[i].velocity.y = bubbles'[i].speed
                       /\ [bubbles'[i] EXCEPT !.speed = bubbles[i].speed,
                                              !.velocity = bubbles[i].velocity] = bubbles[i]
                       /\ bubbles'[i].velocity.x = bubbles[i].velocity.x
        /\ call'.op = "addBubble" =>
              /\ Len(bubbles') = Len(bubbles) + 1
              /\ SubSeq(bubbles', 1, Len(bubbles)) = bubbles
              /\ bubbles'[Len(bubbles')].speed = call'.args[4]
              /\ bubbles'[Len(bubbles')].velocity = Vector2D(0, call'.args[4])
              /\ bullets' = bullets
              /\ speedMultiplier' = speedMultiplier
      ]_vars

\* C6 happens: a bubble is added, falls for a second, the multiplier is set to 2,
\* and a second bubble is added
C6Witness ==
    /\ call.op = "addBubble"
    /\ speedMultiplier = 2 * Scale
    /\ gameTime = Scale
    /\ Len(bubbles) = 2
    /\ bubbles[1].speed = 2 * Scale
    /\ bubbles[1].velocity.y = 2 * Scale
    /\ bubbles[2].speed = Scale
    /\ bubbles[2].velocity = Vector2D(0, Scale)

----------------------------------------------------------------------------
(* Queries *)

QueryOps ==
    {"getBubbleData", "getBulletData", "getBubblesAtBottom", "hasBubbleReachedBottom",
     "getStats", "predictTrajectory"}

\* what the query of call c returns when it is called in the current state
QueryAgain(c) ==
    CASE c.op = "getBubbleData" -> Returned(Len(getBubbleData), getBubbleData)
      [] c.op = "getBulletData" -> Returned(Len(getBulletData), getBulletData)
      [] c.op = "getBubblesAtBottom" ->
            Returned(Len(getBubblesAtBottom(c.args[1])), getBubblesAtBottom(c.args[1]))
      [] c.op = "hasBubbleReachedBottom" ->
            Returned(IF hasBubbleReachedBottom(c.args[1]) THEN 1 ELSE 0, <<>>)
      [] c.op = "getStats" -> Returned(0, <<getStats>>)
      [] c.op = "predictTrajectory" ->
            Returned(Len(predictTrajectory(c.args[1], c.args[2], c.args[3], c.args[4], c.args[5])),
                     predictTrajectory(c.args[1], c.args[2], c.args[3], c.args[4], c.args[5]))

\* the result a second, identical call would give in the current state
SameQueryAgain == QueryAgain(call)

\* C7: every query leaves both collections, gameTime, bubblesDestroyed and
\* speedMultiplier as they are, and the same query called again right after it
\* returns the same result.
C7QueriesChangeNothing ==
    [][ call'.op \in QueryOps => /\ world' = world
                                 /\ ret' = SameQueryAgain' ]_vars

\* C7 happens: getBubbleData is called on a collection that holds inactive
\* bubbles, and returns the active ones only
C7Witness ==
    /\ call.op = "getBubbleData"
    /\ ret.n > 0
    /\ ret.n < Len(bubbles)
    /\ bubblesDestroyed > 0

\* C9: predictTrajectory(x, y, angle, speed, steps) returns steps points, the first
\* (x, y), each next one advancing by (cos(angle)*speed, -sin(angle)*speed) times
\* 1/60 second (to the nearest unit of the grid).
C9StepsOfOneSixtiethSecond ==
    call.op = "predictTrajectory" =>
        LET a == call.args
            vx == Mul(Cos(a[3]), a[4])
            vy == -Mul(Sin(a[3]), a[4])
        IN /\ ret.n = a[5]
           /\ Len(ret.items) = a[5]
           /\ ret.items[1] = Vector2D(a[1], a[2])
           /\ \A i \in 1 .. a[5] - 1 :
                 /\ Abs(60 * (ret.items[i + 1].x - ret.items[i].x) - vx) <= 30
                 /\ Abs(60 * (ret.items[i + 1].y - ret.items[i].y) - vy) <= 30

----------------------------------------------------------------------------
(* initialize *)

\* what C10 says of every state initialize leaves, with the bounds of the
\* ranges closed
C10Initialized ==
    /\ bullets = <<>>
    /\ gameTime = 0
    /\ bubblesDestroyed = 0
    /\ Len(bubbles) = call.args[1]
    /\ \A i \in 1 .. Len(bubbles) :
          LET b == bubbles[i]
          IN /\ b.active
             /\ b.radius \in 12 * Scale .. 20 * Scale
             /\ b.position.y \in -b.radius - 100 * Scale .. -b.radius
             /\ b.speed \in Scale .. 2500
             /\ b.colorIndex \in 0 .. 4
             /\ b.position.x \in Min(b.radius, call.args[2] - b.radius)
                                   .. Max(b.radius, call.args[2] - b.radius)

\* C10 (amended): after initialize, whatever the state before and the values of
\* rand(): no bullets, gameTime and bubblesDestroyed 0, bubbleCount bubbles,
\* each active with radius in [12, 20], y in [-radius-100, -radius], speed in
\* [1.0, 2.5], colorIndex in 0..4, and x between radius and canvasWidth - radius.
C10InitializeClosedRanges == call.op = "initialize" => C10Initialized

\* C10 as stated: half-open ranges, upper bounds excluded
C10InitializeHalfOpenRanges ==
    call.op = "initialize" =>
        /\ C10Initialized
        /\ \A i \in 1 .. Len(bubbles) :
              LET b == bubbles[i]
              IN /\ b.radius < 20 * Scale
                 /\ b.position.x >= b.radius /\ b.position.x < call.args[2] - b.radius
                 /\ b.position.y < -b.radius
                 /\ b.speed < 2500

\* C10 happens: initialize on a world that was in use (the multiplier was set),
\* spawning a bubble of radius 20 and a bubble at y = -radius
C10Witness ==
    /\ call = Called("initialize", <<2, 200 * Scale>>)
    /\ speedMultiplier = 2 * Scale
    /\ frames = 1
    /\ \E i \in 1 .. 2 : bubbles[i].radius = 20 * Scale
    /\ \E i \in 1 .. 2 : bubbles[i].position.y = -bubbles[i].radius

----------------------------------------------------------------------------
(* Bullets in flight *)

\* what a step does to the bullets, the distance growing in the frames of
\* deltaTime >= leastDeltaTime: in an update, bullet i before the step is
\* pass'.start.bullets[i] after the update loop and pass'.end.bullets[i] after
\* the collision pass
BulletsFlyOn(leastDeltaTime) ==
    /\ call'.op = "update" =>
          /\ Len(pass'.start.bullets) = Len(bullets)
          /\ Len(pass'.end.bullets) = Len(bullets)
          /\ \A i \in 1 .. Len(bullets) :
                LET before == bullets[i]
                    moved == pass'.start.bullets[i]
                    after == pass'.end.bullets[i]
                IN /\ (before.active /\ call'.args[1] >= leastDeltaTime) =>
                          moved.distanceTraveled >= before.distanceTraveled
                   /\ moved.distanceTraveled > moved.maxDistance => ~moved.active
                   /\ ~before.active => ~moved.active
                   /\ ~moved.active => ~after.active
                   /\ after.distanceTraveled = moved.distanceTraveled
          /\ bullets' = SelectSeq(pass'.end.bullets, IsActive)
    /\ call'.op = "initialize" => bullets' = <<>>
    /\ call'.op \notin {"update", "initialize"} =>
          /\ Len(bullets') >= Len(bullets)
          /\ \A i \in 1 .. Len(bullets) :
                /\ ~bullets[i].active => ~bullets'[i].active
                /\ bullets'[i].distanceTraveled = bullets[i].distanceTraveled
    /\ \A i \in 1 .. Len(bullets') :
          /\ bullets'[i].maxDistance = 1000 * Scale
          /\ bullets'[i].distanceTraveled > bullets'[i].maxDistance => ~bullets'[i].active

\* C4 (amended): across update calls with deltaTime >= 0 the distanceTraveled of
\* an active bullet never decreases; for any deltaTime, a bullet whose
\* distanceTraveled exceeds maxDistance (1000) is inactive at once, and no
\* operation makes an inactive bullet active.
C4DistanceGrowsForwardInTime == [][BulletsFlyOn(0)]_vars

\* C4 as stated: the same across any update calls, those of the negative
\* deltaTime of FlightDeltaTimes included
C4DistanceNeverDecreases == [][BulletsFlyOn(-160)]_vars

\* C4 happens: a bullet flies for two frames or more and exceeds maxDistance in
\* the last one, which deactivates and removes it
C4Witness ==
    /\ call = Called("update", <<63 * Ticks>>)
    /\ frames >= 2
    /\ pass.collisions = 0
    /\ Len(bullets) < Len(pass.start.bullets)
    /\ \E i \in 1 .. Len(pass.start.bullets) :
          /\ pass.start.bullets[i].distanceTraveled > 1000 * Scale
          /\ pass.start.bullets[i].distanceTraveled < 1500 * Scale
          /\ ~pass.start.bullets[i].active

----------------------------------------------------------------------------
(* The fall of a bubble *)

\* a frame of deltaTime >= leastDeltaTime moves the one bubble down, and does
\* not take it back from the bottom of any canvas
FallsInFrame(leastDeltaTime) ==
    (call'.op = "update" /\ call'.args[1] >= leastDeltaTime) =>
        /\ Len(bubbles') = 1
        /\ bubbles'[1].position.y > bubbles[1].position.y
        /\ \A h \in FrameHeights :
              hasBubbleReachedBottom(h) => hasBubbleReachedBottom(h)'

----------------------------------------------------------------------------
(* After update *)

ActiveCount(objs) == Cardinality({ i \in 1 .. Len(objs) : objs[i].active })

\* C11: whenever update returns, neither collection holds an inactive object, so
\* the bubblesCount and bulletsCount that getStats reports right after it are the
\* numbers of active bubbles and of active bullets.
C11NoInactiveObjectAfterUpdate ==
    call.op = "update" =>
        /\ \A i \in 1 .. Len(bubbles) : bubbles[i].active
        /\ \A i \in 1 .. Len(bullets) : bullets[i].active
        /\ getStats.bubblesCount = ActiveCount(bubbles)
        /\ getStats.bulletsCount = ActiveCount(bullets)

\* C11 happens: an update whose collision pass ended with an inactive bubble and
\* an inactive bullet in the collections, and with bubbles that stay
C11Witness ==
    /\ call.op = "update"
    /\ \E i \in 1 .. Len(pass.end.bubbles) : ~pass.end.bubbles[i].active
    /\ \E i \in 1 .. Len(pass.end.bullets) : ~pass.end.bullets[i].active
    /\ bubbles # <<>>
    /\ getStats.bubblesCount < Len(pass.end.bubbles)

----------------------------------------------------------------------------
(* The counters *)

\* a step in which gameTime and bubblesDestroyed do not decrease, gameTime
\* growing by deltaTime (to the nearest unit of the grid) in an update and not at
\* all in another operation
CountersGrow ==
    /\ bubblesDestroyed' >= bubblesDestroyed
    /\ gameTime' >= gameTime
    /\ call'.op = "update" =>
          Abs((gameTime' - gameTime) * Ticks - call'.args[1] * Scale) <= Ticks \div 2
    /\ call'.op # "update" => gameTime' = gameTime

\* C12 (amended): across the host's operations, update called with dt >= 0 (as
\* in SessionSpec), bubblesDestroyed and gameTime never decrease, gameTime grows
\* by dt on each update and is changed by no other command, initialize excepted,
\* which sets both back to 0.
C12CountersGrowUntilInitialize ==
    [][ /\ call'.op = "initialize" => (gameTime' = 0 /\ bubblesDestroyed' = 0)
        /\ call'.op # "initialize" => CountersGrow ]_vars

\* C12 as stated: initialize among the operations
C12CountersNeverDecrease == [][CountersGrow]_vars

\* C12 happens: after a frame of one second in which a bubble was destroyed,
\* getStats reports both counters
C12Witness ==
    /\ call.op = "getStats"
    /\ gameTime = Scale
    /\ bubblesDestroyed >= 1
    /\ ret.items[1].gameTime = Scale
    /\ ret.items[1].bubblesDestroyed = bubblesDestroyed

----------------------------------------------------------------------------
(* Objects entering and leaving the collections *)

\* the particles the last pass has pushed back
Spawned == ParticleOffset(Len(pass.hits) + 1) - Len(pass.start.bubbles)

\* newObjs holds the objects of objs, in their places, and grown more at its end
Extends(objs, newObjs, grown) ==
    /\ Len(newObjs) = Len(objs) + grown
    /\ \A i \in 1 .. Len(objs) : newObjs[i].position = objs[i].position

\* objs is what is left of passObjs when only inactive objects are taken out
OnlyInactiveLeft(passObjs, objs) ==
    /\ Len(objs) = ActiveCount(passObjs)
    /\ \A i \in 1 .. Len(objs) :
          \E j \in 1 .. Len(passObjs) : passObjs[j].active /\ objs[i] = passObjs[j]

\* a step of an operation other than initialize: objects enter by addBubble
\* (one bubble), shootBullet (one bullet) and explosions (particles); they
\* leave at the end of update, and only inactive ones
EnterAndLeave ==
    /\ call'.op = "addBubble" =>
          Extends(bubbles, bubbles', 1) /\ Extends(bullets, bullets', 0)
    /\ call'.op = "shootBullet" =>
          Extends(bubbles, bubbles', 0) /\ Extends(bullets, bullets', 1)
    /\ call'.op = "setSpeedMultiplier" =>
          Extends(bubbles, bubbles', 0) /\ Extends(bullets, bullets', 0)
    /\ call'.op = "checkCollisions" =>
          Extends(bubbles, bubbles', Spawned') /\ Extends(bullets, bullets', 0)
    /\ call'.op = "update" =>
          /\ Len(pass'.start.bubbles) = Len(bubbles)
          /\ Len(pass'.start.bullets) = Len(bullets)
          /\ Extends(pass'.start.bubbles, pass'.end.bubbles, Spawned')
          /\ Extends(pass'.start.bullets, pass'.end.bullets, 0)
          /\ OnlyInactiveLeft(pass'.end.bubbles, bubbles')
          /\ OnlyInactiveLeft(pass'.end.bullets, bullets')

\* C13 (amended): objects enter the collections only through initialize,
\* addBubble, shootBullet or, for bubbles, an explosion; an object leaves its
\* collection in the cleanup at the end of update, and only if it is inactive,
\* or when initialize clears both collections, active objects included.
C13LeaveByCleanupOrInitialize ==
    [][ /\ call'.op = "initialize" =>
              (bullets' = <<>> /\ Len(bubbles') = call'.args[1])
        /\ call'.op # "initialize" => EnterAndLeave ]_vars

\* C13 as stated: initialize removes no bubble and no bullet either
C13LeaveByCleanupOnly ==
    [][ /\ call'.op = "initialize" =>
              \E grown \in 0 .. MaxCount :
                  Extends(bubbles, bubbles', grown) /\ Extends(bullets, bullets', 0)
        /\ call'.op # "initialize" => EnterAndLeave ]_vars

\* C13 happens: an update has removed an inactive bubble and an inactive bullet
\* and kept an active bubble and an active bullet
C13Witness ==
    /\ call.op = "update"
    /\ bubbles # <<>>
    /\ bullets # <<>>
    /\ Len(bubbles) < Len(pass.end.bubbles)
    /\ Len(bullets) < Len(pass.end.bullets)

----------------------------------------------------------------------------
(* The order of a collision pass *)

\* bubble j of the pass is active when the bullet of hit k is processed: it was
\* active at the start of the pass or pushed back during it, and no earlier hit
\* took it
ActiveAtHit(j, k) ==
    /\ j <= Len(pass.start.bubbles) => pass.start.bubbles[j].active
    /\ j <= ParticleOffset(k)
    /\ \A m \in 1 .. k - 1 : pass.hits[m].bubble # j

\* the square of the distance between the centers, for overlapping objects
Apart(bullet, bubble) ==
    (bullet.position.x - bubble.position.x) * (bullet.position.x - bubble.position.x)
        + (bullet.position.y - bubble.position.y) * (bullet.position.y - bubble.position.y)

\* C14: in a collision pass the bullets are processed in collection order and
\* each active bullet destroys at most one bubble, the first active bubble in
\* collection order that it overlaps, whether or not a later bubble is closer.
C14FirstOverlappingBubbleWins ==
    /\ \A k \in 1 .. Len(pass.hits) :
          LET bullet == pass.start.bullets[pass.hits[k].bullet]
          IN /\ pass.start.bullets[pass.hits[k].bullet].active
             /\ ActiveAtHit(pass.hits[k].bubble, k)
             /\ Overlap(bullet, pass.end.bubbles[pass.hits[k].bubble])
             /\ \A j \in 1 .. pass.hits[k].bubble - 1 :
                   ActiveAtHit(j, k) => ~Overlap(bullet, pass.end.bubbles[j])
    /\ \A k \in 1 .. Len(pass.hits) - 1 : pass.hits[k].bullet < pass.hits[k + 1].bullet

\* C14 happens: a bullet has destroyed the first bubble it overlaps, and a later
\* bubble, closer to it, is active when the pass ends
C14Witness ==
    \E k \in 1 .. Len(pass.hits) :
        \E j \in pass.hits[k].bubble + 1 .. Len(pass.start.bubbles) :
            LET bullet == pass.start.bullets[pass.hits[k].bullet]
            IN /\ pass.end.bubbles[j].active
               /\ Overlap(bullet, pass.end.bubbles[j])
               /\ Apart(bullet, pass.end.bubbles[j])
                     < Apart(bullet, pass.end.bubbles[pass.hits[k].bubble])

----------------------------------------------------------------------------
(* cleanup *)

\* objs holds exactly the active objects of passObjs, each as it was and in the
\* place its rank among the active ones gives it
KeptInOrder(passObjs, objs) ==
    LET kept == { j \in 1 .. Len(passObjs) : passObjs[j].active }
    IN /\ Len(objs) = Cardinality(kept)
       /\ \A j \in kept : objs[Cardinality({ m \in kept : m <= j })] = passObjs[j]

\* C15: cleanup (at the end of update) removes exactly the objects whose active
\* flag is false from both collections and keeps every other bubble and bullet,
\* with unchanged fields, in the same relative order.
C15CleanupKeepsActiveInOrder ==
    call.op = "update" =>
        /\ KeptInOrder(pass.end.bubbles, bubbles)
        /\ KeptInOrder(pass.end.bullets, bullets)

\* C15 happens: cleanup has removed the first bubble of the collection and kept
\* two or more different bubbles behind it
C15Witness ==
    /\ call.op = "update"
    /\ pass.end.bubbles # <<>>
    /\ ~pass.end.bubbles[1].active
    /\ Len(bubbles) >= 2
    /\ bubbles[1] # bubbles[2]
    /\ Len(bullets) < Len(pass.end.bullets)

----------------------------------------------------------------------------
(* The order of the steps of update *)

\* moved is obj after the integration of a frame of deltaTime: where it was,
\* plus deltaTime times the velocity it has now
Integrated(obj, moved, deltaTime) ==
    IF obj.active
    THEN /\ moved.position.x = obj.position.x + MulDt(moved.velocity.x, deltaTime)
         /\ moved.position.y = obj.position.y + MulDt(moved.velocity.y, deltaTime)
    ELSE moved = obj

\* C16: an update advances gameTime, integrates the active bubbles and the active
\* bullets, then detects collisions, then cleans up; the collision pass works on
\* the positions after the frame's integration, and every bullet and bubble it
\* pairs overlap at those positions.
C16CollisionsAfterIntegration ==
    [][ call'.op = "update" =>
          /\ Abs((gameTime' - gameTime) * Ticks - call'.args[1] * Scale) <= Ticks \div 2
          /\ Len(pass'.start.bubbles) = Len(bubbles)
          /\ Len(pass'.start.bullets) = Len(bullets)
          /\ \A i \in 1 .. Len(bubbles) :
                Integrated(bubbles[i], pass'.start.bubbles[i], call'.args[1])
          /\ \A i \in 1 .. Len(bullets) :
                Integrated(bullets[i], pass'.start.bullets[i], call'.args[1])
          /\ \A k \in 1 .. Len(pass'.hits) :
                Overlap(pass'.start.bullets[pass'.hits[k].bullet],
                        pass'.end.bubbles[pass'.hits[k].bubble])
          /\ KeptInOrder(pass'.end.bubbles, bubbles')
          /\ KeptInOrder(pass'.end.bullets, bullets')
      ]_vars

\* where obj was before a frame of deltaTime
Before(obj, deltaTime) ==
    [obj EXCEPT !.position = Vector2D(obj.position.x - MulDt(obj.velocity.x, deltaTime),
                                      obj.position.y - MulDt(obj.velocity.y, deltaTime))]

\* C16 happens: a bullet and a bubble that overlapped before the update do not
\* overlap after its integration, and the update detects no collision
C16Witness ==
    /\ call.op = "update"
    /\ pass.collisions = 0
    /\ Len(bubbles) = 1 /\ Len(bullets) = 1
    /\ ~Overlap(bullets[1], bubbles[1])
    /\ Overlap(Before(bullets[1], call.args[1]), Before(bubbles[1], call.args[1]))

----------------------------------------------------------------------------
(* The life of a bubble *)

----------------------------------------------------------------------------
(* The two bottom queries *)

\* canvas heights the two queries are compared at: far above and far below the
\* bubbles, and around the y of the bubbles the host adds
BottomHeights == {0, 100 * Scale, 110 * Scale, 111 * Scale, 118 * Scale, 1000 * Scale}

\* the bubbles below the line of a canvas of height h, inactive ones included
BelowLine(h) == { i \in 1 .. Len(bubbles) : bubbles[i].position.y > h - 10 * Scale }

\* C18: in every reachable state and for every canvasHeight,
\* hasBubbleReachedBottom is true exactly when getBubblesAtBottom is non-empty,
\* that is exactly when some active bubble has position.y > canvasHeight - 10;
\* an inactive bubble in the collection is reported by neither.
C18BottomQueriesAgree ==
    /\ \A h \in BottomHeights :
          /\ hasBubbleReachedBottom(h) <=> getBubblesAtBottom(h) # <<>>
          /\ hasBubbleReachedBottom(h) <=> \E i \in BelowLine(h) : bubbles[i].active
          /\ Len(getBubblesAtBottom(h)) = Cardinality({ i \in BelowLine(h) : bubbles[i].active })
    /\ call.op = "hasBubbleReachedBottom" =>
          (ret.n = 1 <=> \E i \in BelowLine(call.args[1]) : bubbles[i].active)
    /\ call.op = "getBubblesAtBottom" =>
          (ret.n > 0 <=> \E i \in BelowLine(call.args[1]) : bubbles[i].active)

\* C18 happens: getBubblesAtBottom returns the active bubbles below the line and
\* leaves out an inactive one that is below it too
C18Witness ==
    /\ call.op = "getBubblesAtBottom"
    /\ ret.n >= 1
    /\ ret.n < Cardinality(BelowLine(call.args[1]))
    /\ hasBubbleReachedBottom(call.args[1])
    /\ \E h \in BottomHeights : ~hasBubbleReachedBottom(h) /\ getBubblesAtBottom(h) = <<>>

----------------------------------------------------------------------------
(* Bullets that expire *)

\* the bullets of the last pass that the frame's integration took past
\* maxDistance
Expired ==
    { i \in 1 .. Len(pass.start.bullets) :
        pass.start.bullets[i].distanceTraveled > pass.start.bullets[i].maxDistance }

\* C19: a bullet whose distanceTraveled exceeds maxDistance in the integration of
\* an update is inactive when that update's collision pass starts, so it
\* destroys no bubble in that frame, whatever it overlaps; the same update's
\* cleanup removes it, and bubblesDestroyed grows by the hits of the other
\* bullets only.
C19ExpiredBulletHitsNothing ==
    [][ call'.op = "update" =>
          /\ \A i \in Expired' :
                /\ ~pass'.start.bullets[i].active
                /\ ~pass'.end.bullets[i].active
                /\ i \notin HitBullets'
          /\ Len(bullets') = Len(pass'.end.bullets) - Cardinality(Deactivated(bullets, pass'.end.bullets))
                                - (Len(bullets) - ActiveCount(bullets))
          /\ \A i \in 1 .. Len(bullets') :
                bullets'[i].distanceTraveled <= bullets'[i].maxDistance
          /\ bubblesDestroyed' = bubblesDestroyed + Cardinality(HitBullets' \ Expired')
      ]_vars

\* C19 happens: a frame takes a bullet past maxDistance and onto an active
\* bubble; no collision is detected, the bullet is removed, the bubble stays
C19Witness ==
    /\ call.op = "update"
    /\ Expired = {1}
    /\ Len(pass.start.bubbles) = 1
    /\ pass.start.bubbles[1].active
    /\ Overlap(pass.start.bullets[1], pass.start.bubbles[1])
    /\ pass.collisions = 0
    /\ bubblesDestroyed = 0
    /\ bullets = <<>>
    /\ Len(bubbles) = 1

----------------------------------------------------------------------------
(* The sizes of the collections across an update *)

\* hit k of the last pass destroyed a particle that an earlier hit of the same
\* pass, by a bullet earlier in the collection, had spawned
ParticleHit(k) ==
    /\ pass.hits[k].bubble > Len(pass.start.bubbles)
    /\ pass.hits[k].bubble <= ParticleOffset(k)
    /\ \E h \in 1 .. k - 1 :
          /\ pass.hits[h].bullet < pass.hits[k].bullet
          /\ pass.hits[k].bubble > ParticleOffset(h)
          /\ pass.hits[k].bubble <= ParticleOffset(h) + pass.hits[h].spawned

\* what every update with k collisions does to the collections, given the number
\* of bubbles the collection counts before it
SizesAcrossUpdate(bubblesBefore) ==
    LET k == pass'.collisions
    IN /\ k <= ActiveCount(pass'.start.bullets)
       /\ Len(bullets') <= Len(bullets)
       /\ Len(bubbles') = bubblesBefore - k + Spawned'
       /\ 6 * k <= Spawned'
       /\ Spawned' <= 9 * k
       /\ Len(bubbles') - bubblesBefore >= 5 * k
       /\ Len(bubbles') - bubblesBefore <= 8 * k
       /\ \A h \in 1 .. Len(pass'.hits) :
             pass'.hits[h].bubble > Len(pass'.start.bubbles) => ParticleHit(h)'

\* C20: for every update with k collisions, k is at most the number of bullets
\* active at the start of the collision pass, the bullet collection does not
\* grow, and the bubble collection holds after the update the bubbles that were
\* active before it, minus k, plus the particles spawned (6 to 9 per collision):
\* counted from the active bubbles it grows by between 5k and 8k.  A bubble hit
\* beyond the ones the pass started with is a particle of an earlier hit of the
\* same pass, destroyed by a bullet later in the collection.
C20SizesFromActiveBubbles ==
    [][ call'.op = "update" => SizesAcrossUpdate(ActiveCount(bubbles)) ]_vars

\* C20 as stated: counted from the size of the bubble collection before the
\* update
C20SizesFromCollectionSize ==
    [][ call'.op = "update" => SizesAcrossUpdate(Len(bubbles)) ]_vars

\* C20 happens: in one update a bullet destroys a bubble and the next bullet
\* destroys one of the particles of that explosion
C20Witness ==
    /\ call.op = "update"
    /\ call.args[1] > 0
    /\ pass.collisions = 2
    /\ pass.hits[1].bubble <= Len(pass.start.bubbles)
    /\ ParticleHit(2)
    /\ Len(bubbles) = ActiveCount(pass.start.bubbles) - 2 + Spawned
    /\ bullets = <<>>

====
